---- MODULE Spec2Model ----
(* The generated weight header firmware/weights/b4.h of the mnist_mlp      *)
(* example, modelled as what a C++ build does with it: every translation    *)
(* unit is preprocessed line by line (inclusion guard, build-mode          *)
(* conditional), the selected declaration of b4 is recorded, the program    *)
(* is linked and its static tables initialised, and a consumer reads the    *)
(* table in index order.                                                    *)
EXTENDS Integers, Sequences, FiniteSets, TLC

VARIABLES tu, line, cond, macros, includes, decls, err, phase, objects, symtab, rd, lastRead

vars == <<tu, line, cond, macros, includes, decls, err, phase, objects, symtab, rd, lastRead>>

(* ---------------------------------------------------------------------- *)
(* Bounds of the model.                                                   *)
(* ---------------------------------------------------------------------- *)

\* translation units of the build
NumTU == 2

\* #include "b4.h" directives one translation unit may contain
MaxIncludes == 2

TUs == 1..NumTU

(* ---------------------------------------------------------------------- *)
(* The text of b4.h.                                                      *)
(* ---------------------------------------------------------------------- *)

\* the array bound written in both declarators, b4[256]
ArrayBoundShort == 256 - 1

ArrayBound == 256

\* A decimal literal is kept as its tokens: sign, integer digit and the
\* four fractional digits, as printed on line 12.
b4_init ==
    <<
       <<"-", 0, 1, 3, 2, 6>>, <<"-", 0, 2, 0, 9, 2>>, <<"-", 0, 2, 1, 2, 1>>, <<"-", 0, 1, 4, 1, 6>>,
       <<"-", 0, 2, 0, 4, 5>>, <<"-", 0, 2, 1, 6, 1>>, <<"-", 0, 2, 6, 0, 1>>, <<"-", 0, 0, 9, 9, 8>>,
       <<"-", 0, 1, 1, 2, 4>>, <<"-", 0, 0, 7, 9, 9>>, <<"-", 0, 2, 1, 6, 7>>, <<"-", 0, 1, 7, 8, 7>>,
       <<"", 0, 0, 0, 7, 0>>, <<"-", 0, 1, 3, 9, 1>>, <<"-", 0, 1, 2, 9, 8>>, <<"-", 0, 1, 4, 1, 1>>,
       <<"-", 0, 0, 9, 1, 0>>, <<"-", 0, 1, 3, 6, 4>>, <<"-", 0, 0, 4, 3, 3>>, <<"-", 0, 1, 8, 0, 4>>,
       <<"-", 0, 1, 8, 8, 6>>, <<"-", 0, 1, 8, 9, 6>>, <<"-", 0, 2, 0, 1, 6>>, <<"-", 0, 1, 9, 4, 7>>,
       <<"-", 0, 1, 3, 7, 9>>, <<"-", 0, 0, 2, 5, 2>>, <<"-", 0, 0, 6, 3, 5>>, <<"", 0, 0, 9, 8, 4>>,
       <<"-", 0, 1, 5, 2, 7>>, <<"-", 0, 0, 9, 6, 8>>, <<"-", 0, 1, 6, 4, 9>>, <<"-", 0, 1, 3, 2, 1>>,
       <<"-", 0, 1, 3, 5, 8>>, <<"-", 0, 1, 3, 1, 9>>, <<"-", 0, 0, 6, 9, 5>>, <<"-", 0, 0, 6, 7, 7>>,
       <<"-", 0, 0, 9, 5, 2>>, <<"-", 0, 1, 0, 0, 8>>, <<"-", 0, 0, 2, 4, 7>>, <<"-", 0, 2, 3, 0, 2>>,
       <<"-", 0, 0, 6, 0, 3>>, <<"-", 0, 1, 0, 6, 3>>, <<"-", 0, 0, 6, 6, 6>>, <<"-", 0, 1, 7, 6, 9>>,
       <<"-", 0, 0, 6, 7, 9>>, <<"-", 0, 1, 6, 4, 4>>, <<"-", 0, 0, 8, 6, 9>>, <<"-", 0, 2, 3, 7, 6>>,
       <<"-", 0, 2, 0, 3, 2>>, <<"-", 0, 2, 6, 3, 4>>, <<"-", 0, 1, 4, 8, 7>>, <<"-", 0, 0, 4, 4, 1>>,
       <<"-", 0, 0, 7, 8, 6>>, <<"-", 0, 1, 2, 1, 4>>, <<"-", 0, 0, 7, 4, 6>>, <<"-", 0, 1, 6, 2, 6>>,
       <<"-", 0, 0, 9, 0, 6>>, <<"-", 0, 0, 8, 4, 4>>, <<"", 0, 0, 0, 8, 6>>, <<"-", 0, 1, 6, 4, 5>>,
       <<"-", 0, 1, 4, 2, 2>>, <<"-", 0, 1, 0, 9, 1>>, <<"-", 0, 2, 1, 3, 7>>, <<"-", 0, 2, 5, 0, 1>>,
       <<"-", 0, 0, 0, 6, 9>>, <<"-", 0, 2, 0, 5, 1>>, <<"-", 0, 0, 7, 1, 3>>, <<"-", 0, 1, 1, 8, 1>>,
       <<"-", 0, 1, 3, 8, 5>>, <<"-", 0, 0, 2, 7, 8>>, <<"-", 0, 0, 2, 9, 7>>, <<"-", 0, 0, 9, 5, 8>>,
       <<"-", 0, 0, 8, 9, 8>>, <<"", 0, 0, 2, 0, 6>>, <<"-", 0, 1, 1, 4, 1>>, <<"-", 0, 1, 2, 6, 1>>,
       <<"-", 0, 2, 1, 3, 5>>, <<"-", 0, 1, 1, 6, 9>>, <<"-", 0, 0, 2, 4, 7>>, <<"-", 0, 1, 3, 4, 6>>,
       <<"-", 0, 2, 1, 7, 2>>, <<"-", 0, 1, 0, 5, 4>>, <<"-", 0, 1, 4, 4, 7>>, <<"-", 0, 0, 6, 4, 2>>,
       <<"-", 0, 1, 3, 6, 4>>, <<"-", 0, 1, 7, 8, 0>>, <<"-", 0, 0, 0, 5, 9>>, <<"-", 0, 1, 0, 4, 7>>,
       <<"-", 0, 0, 7, 6, 5>>, <<"-", 0, 1, 5, 3, 8>>, <<"-", 0, 0, 6, 8, 9>>, <<"-", 0, 1, 1, 1, 9>>,
       <<"-", 0, 2, 5, 4, 0>>, <<"-", 0, 0, 9, 8, 8>>, <<"-", 0, 0, 5, 4, 0>>, <<"-", 0, 1, 6, 5, 3>>,
       <<"", 0, 0, 1, 2, 9>>, <<"-", 0, 1, 7, 5, 0>>, <<"-", 0, 0, 6, 2, 8>>, <<"-", 0, 1, 0, 7, 4>>,
       <<"-", 0, 1, 8, 5, 0>>, <<"-", 0, 2, 1, 0, 1>>, <<"-", 0, 2, 2, 9, 0>>, <<"-", 0, 0, 8, 4, 1>>,
       <<"-", 0, 2, 2, 8, 5>>, <<"-", 0, 0, 9, 9, 5>>, <<"-", 0, 2, 1, 0, 2>>, <<"-", 0, 1, 0, 3, 7>>,
       <<"-", 0, 1, 8, 5, 1>>, <<"-", 0, 1, 1, 6, 4>>, <<"-", 0, 0, 1, 6, 7>>, <<"-", 0, 1, 3, 5, 2>>,
       <<"-", 0, 1, 2, 8, 8>>, <<"-", 0, 0, 7, 7, 8>>, <<"-", 0, 1, 2, 1, 6>>, <<"-", 0, 1, 5, 9, 2>>,
       <<"-", 0, 1, 1, 7, 6>>, <<"-", 0, 1, 0, 9, 1>>, <<"-", 0, 1, 8, 7, 8>>, <<"-", 0, 1, 6, 8, 6>>,
       <<"-", 0, 1, 7, 7, 7>>, <<"-", 0, 1, 2, 7, 9>>, <<"-", 0, 1, 1, 6, 0>>, <<"-", 0, 2, 0, 8, 9>>,
       <<"-", 0, 0, 5, 8, 5>>, <<"-", 0, 0, 3, 3, 4>>, <<"-", 0, 1, 8, 4, 6>>, <<"-", 0, 1, 9, 4, 8>>,
       <<"-", 0, 1, 5, 8, 8>>, <<"-", 0, 0, 8, 8, 0>>, <<"-", 0, 1, 5, 8, 8>>, <<"-", 0, 1, 4, 9, 5>>,
       <<"-", 0, 1, 2, 7, 8>>, <<"-", 0, 0, 1, 8, 2>>, <<"-", 0, 1, 3, 8, 6>>, <<"-", 0, 1, 1, 0, 4>>,
       <<"-", 0, 0, 6, 8, 7>>, <<"-", 0, 1, 7, 0, 2>>, <<"-", 0, 2, 1, 4, 1>>, <<"-", 0, 2, 2, 7, 7>>,
       <<"-", 0, 1, 5, 5, 9>>, <<"-", 0, 0, 8, 5, 0>>, <<"-", 0, 1, 3, 7, 8>>, <<"-", 0, 1, 0, 0, 5>>,
       <<"-", 0, 1, 8, 2, 8>>, <<"-", 0, 2, 0, 7, 6>>, <<"-", 0, 0, 0, 4, 9>>, <<"-", 0, 1, 4, 6, 5>>,
       <<"-", 0, 1, 0, 6, 2>>, <<"-", 0, 1, 1, 6, 7>>, <<"-", 0, 0, 3, 8, 0>>, <<"-", 0, 1, 2, 5, 9>>,
       <<"-", 0, 1, 1, 2, 7>>, <<"-", 0, 1, 0, 6, 1>>, <<"-", 0, 2, 0, 6, 8>>, <<"", 0, 0, 4, 1, 1>>,
       <<"-", 0, 0, 9, 7, 8>>, <<"-", 0, 0, 7, 6, 5>>, <<"-", 0, 0, 2, 2, 6>>, <<"-", 0, 1, 2, 4, 0>>,
       <<"-", 0, 1, 0, 9, 9>>, <<"-", 0, 1, 1, 8, 5>>, <<"-", 0, 0, 8, 3, 3>>, <<"-", 0, 1, 1, 3, 3>>,
       <<"-", 0, 1, 7, 4, 7>>, <<"-", 0, 0, 0, 9, 1>>, <<"-", 0, 1, 3, 7, 2>>, <<"-", 0, 0, 9, 3, 9>>,
       <<"-", 0, 1, 5, 5, 7>>, <<"-", 0, 1, 6, 4, 8>>, <<"-", 0, 1, 2, 6, 3>>, <<"-", 0, 0, 3, 2, 6>>,
       <<"-", 0, 1, 9, 4, 4>>, <<"-", 0, 1, 8, 1, 6>>, <<"", 0, 0, 0, 5, 9>>, <<"-", 0, 1, 0, 0, 9>>,
       <<"-", 0, 1, 4, 7, 4>>, <<"-", 0, 1, 3, 9, 6>>, <<"-", 0, 0, 2, 6, 9>>, <<"-", 0, 1, 1, 8, 3>>,
       <<"-", 0, 0, 8, 9, 3>>, <<"-", 0, 0, 2, 7, 5>>, <<"-", 0, 1, 4, 5, 9>>, <<"-", 0, 1, 5, 1, 9>>,
       <<"-", 0, 0, 7, 5, 0>>, <<"-", 0, 0, 4, 1, 7>>, <<"-", 0, 0, 7, 4, 7>>, <<"-", 0, 1, 9, 4, 3>>,
       <<"-", 0, 1, 8, 1, 1>>, <<"-", 0, 2, 4, 6, 0>>, <<"", 0, 0, 0, 6, 3>>, <<"-", 0, 0, 9, 6, 6>>,
       <<"-", 0, 3, 0, 2, 9>>, <<"-", 0, 0, 6, 2, 6>>, <<"-", 0, 1, 5, 1, 7>>, <<"-", 0, 0, 4, 7, 1>>,
       <<"-", 0, 1, 5, 9, 9>>, <<"-", 0, 1, 0, 5, 7>>, <<"-", 0, 2, 6, 1, 1>>, <<"-", 0, 1, 7, 4, 4>>,
       <<"-", 0, 0, 8, 2, 5>>, <<"-", 0, 0, 5, 0, 2>>, <<"-", 0, 0, 9, 3, 7>>, <<"-", 0, 1, 8, 8, 0>>,
       <<"-", 0, 0, 3, 3, 5>>, <<"-", 0, 2, 5, 6, 1>>, <<"-", 0, 1, 7, 6, 8>>, <<"-", 0, 0, 4, 6, 0>>,
       <<"-", 0, 0, 9, 4, 6>>, <<"-", 0, 2, 2, 7, 3>>, <<"-", 0, 1, 0, 0, 2>>, <<"-", 0, 1, 5, 9, 7>>,
       <<"-", 0, 2, 1, 1, 2>>, <<"-", 0, 1, 0, 2, 2>>, <<"-", 0, 1, 3, 3, 6>>, <<"-", 0, 2, 5, 7, 8>>,
       <<"-", 0, 0, 4, 4, 7>>, <<"-", 0, 2, 4, 5, 1>>, <<"-", 0, 1, 3, 2, 6>>, <<"-", 0, 1, 2, 4, 2>>,
       <<"-", 0, 1, 2, 8, 0>>, <<"-", 0, 2, 5, 9, 8>>, <<"-", 0, 0, 5, 0, 6>>, <<"-", 0, 1, 4, 1, 2>>,
       <<"-", 0, 1, 9, 6, 0>>, <<"-", 0, 1, 3, 4, 4>>, <<"-", 0, 1, 1, 2, 4>>, <<"-", 0, 0, 6, 9, 8>>,
       <<"-", 0, 1, 6, 9, 9>>, <<"-", 0, 1, 8, 1, 6>>, <<"-", 0, 0, 4, 8, 4>>, <<"-", 0, 1, 7, 6, 7>>,
       <<"", 0, 0, 9, 8, 5>>, <<"-", 0, 0, 9, 9, 6>>, <<"-", 0, 0, 4, 7, 1>>, <<"-", 0, 2, 0, 4, 2>>,
       <<"-", 0, 1, 1, 9, 0>>, <<"-", 0, 1, 2, 5, 7>>, <<"-", 0, 1, 8, 5, 2>>, <<"-", 0, 1, 9, 4, 5>>,
       <<"-", 0, 1, 2, 0, 8>>, <<"-", 0, 1, 0, 9, 1>>, <<"-", 0, 0, 4, 4, 8>>, <<"-", 0, 0, 7, 5, 4>>,
       <<"-", 0, 1, 5, 8, 0>>, <<"-", 0, 1, 8, 6, 6>>, <<"-", 0, 1, 8, 9, 5>>, <<"-", 0, 1, 0, 3, 3>>,
       <<"-", 0, 0, 4, 5, 4>>, <<"-", 0, 0, 8, 7, 8>>, <<"-", 0, 0, 4, 7, 0>>, <<"-", 0, 2, 5, 3, 8>>,
       <<"-", 0, 1, 3, 6, 9>>, <<"-", 0, 1, 1, 8, 4>>, <<"-", 0, 1, 8, 0, 5>>, <<"-", 0, 0, 7, 2, 1>>
    >>

\* the number printed in a summary comment: sign, integer digit, fraction digits
MinComment == <<"-", 0, 3, 0, 2, 8, 6, 9, 6, 1, 7, 9, 3, 9>>

MaxComment == <<"", 0, 0, 9, 8, 4, 7, 4, 6, 4, 4, 1, 2, 5>>

ZerosComment == 0

ShapeComment == 256

NoInit == <<>>

\* the fifteen lines of the header
b4_h ==
    << [kind |-> "comment", key |-> "Numpy array shape"],
       [kind |-> "comment", key |-> "Min"],
       [kind |-> "comment", key |-> "Max"],
       [kind |-> "comment", key |-> "Number of zeros"],
       [kind |-> "blank"],
       [kind |-> "ifndef", name |-> "B4_H_"],
       [kind |-> "define", name |-> "B4_H_"],
       [kind |-> "blank"],
       [kind |-> "ifndef", name |-> "__SYNTHESIS__"],
       [kind |-> "decl", storage |-> "static", type |-> "model_default_t",
        name |-> "b4", bound |-> ArrayBound, hasInit |-> FALSE, init |-> NoInit],
       [kind |-> "else"],
       [kind |-> "decl", storage |-> "static", type |-> "model_default_t",
        name |-> "b4", bound |-> ArrayBound, hasInit |-> TRUE, init |-> b4_init],
       [kind |-> "endif"],
       [kind |-> "blank"],
       [kind |-> "endif"] >>

NumLines == Len(b4_h)

PlaceholderLine == 10

LiteralLine == 12

(* ---------------------------------------------------------------------- *)
(* Decimal literals and the element type.                                 *)
(* ---------------------------------------------------------------------- *)

\* values are counted in units of 1/Scale, the printed precision
Scale == 10000

\* the literal of a token tuple, in units of 1/Scale, with the sign dropped
LitScaledUnsigned(tok) ==
    tok[2] * Scale + tok[3] * 1000 + tok[4] * 100 + tok[5] * 10 + tok[6]

\* the literal of a token tuple, in units of 1/Scale
LitScaled(tok) ==
    LET mag == tok[2] * Scale + tok[3] * 1000 + tok[4] * 100 + tok[5] * 10 + tok[6]
    IN  IF tok[1] = "-" THEN 0 - mag ELSE mag

\* a summary comment's number as it appears at four decimals: the fifth
\* fractional digit rounds the fourth
Round4(tok) ==
    LET mag == tok[2] * Scale + tok[3] * 1000 + tok[4] * 100 + tok[5] * 10 + tok[6]
        up  == IF Len(tok) >= 7 /\ tok[7] >= 5 THEN 1 ELSE 0
    IN  IF tok[1] = "-" THEN 0 - (mag + up) ELSE mag + up

\* significand width of a half-precision format
MantissaBitsHalf == 24 - 13

\* significand width of the floating-point element type (binary32)
MantissaBits == 24

\* exponent bias of the element type (binary32)
ExpBias == 127

\* The word that holds (-1)^neg * m * 2^(-e), for a full significand m: the
\* biased exponent above the fraction bits, the sign bit kept as the sign
\* of the integer.
Pack(neg, m, e) ==
    LET half == 2^(MantissaBits - 1)
        bits == (MantissaBits - 1 + ExpBias - e) * half + (m - half)
    IN  IF neg THEN 0 - bits ELSE bits

\* the word of the value zero
Zero == 0

\* binary long division of r/Scale: shift bits into m until the significand
\* is full; r is the remainder still to the right of the last bit
RECURSIVE Significand(_, _, _)
Significand(r, m, e) ==
    IF m >= 2^(MantissaBits - 1)
    THEN [m |-> m, e |-> e, r |-> r]
    ELSE LET r2  == 2 * r
             bit == IF r2 >= Scale THEN 1 ELSE 0
         IN  Significand(r2 - bit * Scale, 2 * m + bit, e + 1)

\* conversion of a decimal literal (in units of 1/Scale) to the element
\* type: nearest representable value, ties to even
ToElem(n) ==
    IF n = 0 THEN Zero
    ELSE LET mag == IF n < 0 THEN 0 - n ELSE n
             s   == Significand(mag % Scale, mag \div Scale, 0)
             up  == 2 * s.r > Scale \/ (2 * s.r = Scale /\ s.m % 2 = 1)
             m1  == IF up THEN s.m + 1 ELSE s.m
         IN  IF m1 = 2^MantissaBits
             THEN Pack(n < 0, m1 \div 2, s.e - 1)
             ELSE Pack(n < 0, m1, s.e)

\* a / 2^k rounded to the nearest integer, ties to even; rest says that
\* bits below a were cut off
RoundShift(a, k, rest) ==
    LET d    == 2^k
        q    == a \div d
        rem  == a % d
        twice == 2 * rem
    IN  IF twice > d \/ (twice = d /\ (rest \/ q % 2 = 1)) THEN q + 1 ELSE q

\* an element printed at four decimals: m * Scale / 2^e in units of 1/Scale
ElemToScaled(x) ==
    IF x = Zero THEN 0
    ELSE LET half == 2^(MantissaBits - 1)
             bits == IF x < 0 THEN 0 - x ELSE x
             m    == (bits % half) + half
             e    == MantissaBits - 1 + ExpBias - (bits \div half)
             mag  == IF m < 2^16
                     THEN RoundShift(m * Scale, e, FALSE)
                     ELSE LET lo == (m % 4096) * Scale
                              hi == (m \div 4096) * Scale + (lo \div 4096)
                          IN  RoundShift(hi, e - 12, lo % 4096 # 0)
         IN  IF x < 0 THEN 0 - mag ELSE mag

(* ---------------------------------------------------------------------- *)
(* Preprocessing and compiling one translation unit.                      *)
(* ---------------------------------------------------------------------- *)

\* the group of lines the preprocessor is in is being processed
Active(stack) == stack = <<>> \/ stack[Len(stack)].on

\* linkage that ignores the storage class
LinkageExternal(storage) == "external"

\* `static` at namespace scope gives the name internal linkage
Linkage(storage) == IF storage = "static" THEN "internal" ELSE "external"

NextLine == line' = line + 1

CompileFrame == UNCHANGED <<tu, phase, objects, symtab, rd, lastRead>>

\* #include "b4.h": the preprocessor enters the header at its first line
BeginInclude ==
    /\ phase = "compile"
    /\ line = 0
    /\ includes[tu] < MaxIncludes
    /\ line' = 1
    /\ UNCHANGED <<cond, macros, includes, decls, err>>
    /\ CompileFrame

\* a comment or blank line: nothing reaches the compiler
SkipText ==
    /\ phase = "compile"
    /\ line \in 1..NumLines
    /\ b4_h[line].kind \in {"comment", "blank"}
    /\ NextLine
    /\ UNCHANGED <<cond, macros, includes, decls, err>>
    /\ CompileFrame

\* #ifndef that opens its group whether or not the macro is defined
IfndefAlways ==
    /\ phase = "compile"
    /\ line \in 1..NumLines
    /\ b4_h[line].kind = "ifndef"
    /\ cond' = Append(cond, [on |-> Active(cond), par |-> Active(cond), taken |-> Active(cond)])
    /\ NextLine
    /\ UNCHANGED <<macros, includes, decls, err>>
    /\ CompileFrame

\* #ifndef NAME: the group is processed when the enclosing group is and
\* NAME is not defined
Ifndef ==
    /\ phase = "compile"
    /\ line \in 1..NumLines
    /\ b4_h[line].kind = "ifndef"
    /\ LET par == Active(cond)
           on  == par /\ b4_h[line].name \notin macros[tu]
       IN  cond' = Append(cond, [on |-> on, par |-> par, taken |-> on])
    /\ NextLine
    /\ UNCHANGED <<macros, includes, decls, err>>
    /\ CompileFrame

\* #define that forgets the macro
DefineLost ==
    /\ phase = "compile"
    /\ line \in 1..NumLines
    /\ b4_h[line].kind = "define"
    /\ NextLine
    /\ UNCHANGED <<cond, macros, includes, decls, err>>
    /\ CompileFrame

\* #define NAME, in a group that is processed
Define ==
    /\ phase = "compile"
    /\ line \in 1..NumLines
    /\ b4_h[line].kind = "define"
    /\ macros' = IF Active(cond)
                 THEN [macros EXCEPT ![tu] = @ \cup {b4_h[line].name}]
                 ELSE macros
    /\ NextLine
    /\ UNCHANGED <<cond, includes, decls, err>>
    /\ CompileFrame

\* #else that leaves the conditional as it was
ElseKeep ==
    /\ phase = "compile"
    /\ line \in 1..NumLines
    /\ b4_h[line].kind = "else"
    /\ cond # <<>>
    /\ LET top == cond[Len(cond)]
       IN  cond' = [cond EXCEPT ![Len(cond)] = [on |-> top.par, par |-> top.par, taken |-> TRUE]]
    /\ NextLine
    /\ UNCHANGED <<macros, includes, decls, err>>
    /\ CompileFrame

\* #else: the group is processed when the enclosing group is and no earlier
\* group of this conditional was
Else ==
    /\ phase = "compile"
    /\ line \in 1..NumLines
    /\ b4_h[line].kind = "else"
    /\ cond # <<>>
    /\ LET top == cond[Len(cond)]
       IN  cond' = [cond EXCEPT ![Len(cond)] =
                       [on |-> top.par /\ ~top.taken, par |-> top.par, taken |-> TRUE]]
    /\ NextLine
    /\ UNCHANGED <<macros, includes, decls, err>>
    /\ CompileFrame

\* #endif closes the innermost conditional
Endif ==
    /\ phase = "compile"
    /\ line \in 1..NumLines
    /\ b4_h[line].kind = "endif"
    /\ cond # <<>>
    /\ cond' = SubSeq(cond, 1, Len(cond) - 1)
    /\ NextLine
    /\ UNCHANGED <<macros, includes, decls, err>>
    /\ CompileFrame

\* what the compiler records of a definition of the header
DeclOf(n) ==
    [line    |-> n,
     name    |-> b4_h[n].name,
     bound   |-> b4_h[n].bound,
     hasInit |-> b4_h[n].hasInit,
     ninit   |-> Len(b4_h[n].init),
     linkage |-> Linkage(b4_h[n].storage)]

\* the compiler's verdict on a definition that reaches it
DeclError(seen, d) ==
    IF \E k \in 1..Len(seen) : seen[k].name = d.name THEN "redefinition"
    ELSE IF d.ninit > d.bound THEN "too many initializers"
    ELSE "none"

\* a definition of b4: it reaches the compiler only in a processed group
Declare ==
    /\ phase = "compile"
    /\ line \in 1..NumLines
    /\ b4_h[line].kind = "decl"
    /\ IF Active(cond)
       THEN LET d == DeclOf(line)
                e == DeclError(decls[tu], d)
            IN  /\ decls' = [decls EXCEPT ![tu] = Append(@, d)]
                /\ err' = IF err[tu] = "none" /\ e # "none"
                          THEN [err EXCEPT ![tu] = e]
                          ELSE err
       ELSE UNCHANGED <<decls, err>>
    /\ NextLine
    /\ UNCHANGED <<cond, macros, includes>>
    /\ CompileFrame

\* end of the header: back to the including file
EndInclude ==
    /\ phase = "compile"
    /\ line = NumLines + 1
    /\ line' = 0
    /\ includes' = [includes EXCEPT ![tu] = @ + 1]
    /\ UNCHANGED <<cond, macros, decls, err>>
    /\ CompileFrame

\* end of the translation unit: the next one is compiled, or the link begins
FinishTU ==
    /\ phase = "compile"
    /\ line = 0
    /\ IF tu < NumTU
       THEN tu' = tu + 1 /\ phase' = phase
       ELSE tu' = tu /\ phase' = "link"
    /\ UNCHANGED <<line, cond, macros, includes, decls, err, objects, symtab, rd, lastRead>>

(* ---------------------------------------------------------------------- *)
(* Linking, static initialisation and the consumer's reads.               *)
(* ---------------------------------------------------------------------- *)

\* symtab of a translation unit in which b4 names nothing
NoObject == 0 - 1

\* the object shared by all definitions with external linkage
SharedObject == 0

Indices(n) == 0..(n - 1)

\* static storage without an initializer is zero-initialised
ZeroInit(n) == [i \in Indices(n) |-> Zero]

\* aggregate initialisation that starts one literal late
AggregateInitShifted(n, init) ==
    [i \in Indices(n) |-> IF i + 2 <= Len(init) THEN ToElem(LitScaled(init[i + 2])) ELSE Zero]

\* aggregate initialisation: element i takes the i-th initializer (counted
\* from 0) converted to the element type; elements without one are zero
AggregateInit(n, init) ==
    [i \in Indices(n) |-> IF i + 1 <= Len(init) THEN ToElem(LitScaled(init[i + 1])) ELSE Zero]

\* static initialisation that leaves the placeholder's storage as it finds it
StaticInitDirty(d) ==
    IF d.hasInit
    THEN AggregateInit(d.bound, b4_h[d.line].init)
    ELSE [i \in Indices(d.bound) |-> 1]

\* the table a definition yields when the program starts
StaticInit(d) ==
    IF d.hasInit
    THEN AggregateInit(d.bound, b4_h[d.line].init)
    ELSE ZeroInit(d.bound)

Defines(t) == decls[t] # <<>>

\* the object a translation unit's b4 names: its own for internal linkage,
\* the program's one for external linkage
ObjectOf(t) == IF decls[t][1].linkage = "internal" THEN t ELSE SharedObject

\* two definitions with external linkage break the one-definition rule
MultipleDefinition ==
    \E t1, t2 \in TUs :
        /\ t1 # t2
        /\ Defines(t1) /\ Defines(t2)
        /\ ObjectOf(t1) = SharedObject /\ ObjectOf(t2) = SharedObject

\* link the translation units and initialise the static tables
Load ==
    /\ phase = "link"
    /\ IF (\E t \in TUs : err[t] # "none") \/ MultipleDefinition
       THEN /\ phase' = "failed"
            /\ UNCHANGED <<objects, symtab>>
       ELSE /\ phase' = "run"
            /\ symtab' = [t \in TUs |-> IF Defines(t) THEN ObjectOf(t) ELSE NoObject]
            /\ objects' = [k \in {ObjectOf(t) : t \in {u \in TUs : Defines(u)}} |->
                              StaticInit(decls[CHOOSE t \in TUs : Defines(t) /\ ObjectOf(t) = k][1])]
    /\ UNCHANGED <<tu, line, cond, macros, includes, decls, err, rd, lastRead>>

\* a read that clears the entry it returns
ReadAndClear(t) ==
    /\ phase = "run"
    /\ symtab[t] # NoObject
    /\ lastRead' = [tu |-> t, i |-> rd, val |-> objects[symtab[t]][rd]]
    /\ objects' = [objects EXCEPT ![symtab[t]][rd] = Zero]
    /\ rd' = (rd + 1) % ArrayBound
    /\ UNCHANGED <<tu, line, cond, macros, includes, decls, err, phase, symtab>>

\* the consumer in translation unit t reads the next entry, in index order
Read(t) ==
    /\ phase = "run"
    /\ symtab[t] # NoObject
    /\ lastRead' = [tu |-> t, i |-> rd, val |-> objects[symtab[t]][rd]]
    /\ rd' = (rd + 1) % ArrayBound
    /\ UNCHANGED <<tu, line, cond, macros, includes, decls, err, phase, objects, symtab>>

(* ---------------------------------------------------------------------- *)
(* The specification.                                                     *)
(* ---------------------------------------------------------------------- *)

\* the build-mode flag is set per translation unit, before its first line
Init ==
    /\ tu = 1
    /\ line = 0
    /\ cond = <<>>
    /\ macros \in [TUs -> {{}, {"__SYNTHESIS__"}}]
    /\ includes = [t \in TUs |-> 0]
    /\ decls = [t \in TUs |-> <<>>]
    /\ err = [t \in TUs |-> "none"]
    /\ phase = "compile"
    /\ objects = <<>>
    /\ symtab = [t \in TUs |-> NoObject]
    /\ rd = 0
    /\ lastRead = [tu |-> 0, i |-> 0 - 1, val |-> Zero]

Next ==
    \/ BeginInclude
    \/ SkipText
    \/ Ifndef
    \/ Define
    \/ Else
    \/ Endif
    \/ Declare
    \/ EndInclude
    \/ FinishTU
    \/ Load
    \/ \E t \in TUs : Read(t)

Spec == Init /\ [][Next]_vars

(* ---------------------------------------------------------------------- *)
(* Properties.                                                            *)
(* ---------------------------------------------------------------------- *)

\* translation unit t is built in synthesis mode
Synth(t) == "__SYNTHESIS__" \in macros[t]

\* the table of translation unit t has been read up to its last entry
ReadThrough(t) == phase = "run" /\ lastRead.tu = t /\ lastRead.i = 255

\* line 12's literals at their printed precision, in units of 1/Scale
LiteralValues == [i \in 1..Len(b4_init) |-> LitScaled(b4_init[i])]

\* line 12's literals as values of the element type, by index from 0
LiteralElems == [i \in 0..255 |-> ToElem(LitScaled(b4_init[i + 1]))]

LiteralMin == CHOOSE x \in {LiteralValues[i] : i \in DOMAIN LiteralValues} :
                  \A j \in DOMAIN LiteralValues : x <= LiteralValues[j]

LiteralMax == CHOOSE x \in {LiteralValues[i] : i \in DOMAIN LiteralValues} :
                  \A j \in DOMAIN LiteralValues : x >= LiteralValues[j]

LiteralZeros == Cardinality({i \in DOMAIN LiteralValues : LiteralValues[i] = 0})

\* C1: in both build modes every definition of b4 the header yields has
\* array bound 256, a definition with an initializer list has exactly 256
\* literals in it, and every table of the running program has the 256
\* entries 0..255.
C1_Length256 ==
    /\ \A t \in TUs : \A k \in 1..Len(decls[t]) :
          /\ decls[t][k].bound = 256
          /\ decls[t][k].hasInit => decls[t][k].ninit = 256
    /\ phase = "run" => \A o \in DOMAIN objects : DOMAIN objects[o] = 0..255

\* C1 witness: a running program with a placeholder table and a literal table
C1_Witness ==
    /\ phase = "run"
    /\ \E t1, t2 \in TUs :
          /\ Defines(t1) /\ ~Synth(t1) /\ decls[t1][1].line = PlaceholderLine
          /\ Defines(t2) /\ Synth(t2) /\ decls[t2][1].line = LiteralLine

\* C2: in synthesis mode entry i of the table is the i-th literal of the
\* initializer list (counted from 0), for every i in 0..255.
C2_LiteralsInOrder ==
    phase = "run" =>
        \A t \in TUs : (Defines(t) /\ Synth(t)) =>
            objects[symtab[t]] = LiteralElems

\* C2 witness: a synthesis-mode table read through to entry 255
C2_Witness == \E t \in TUs : Synth(t) /\ ReadThrough(t) /\ lastRead.val = LiteralElems[255]

\* C3: in placeholder mode every one of the 256 entries is zero.
C3_PlaceholderZero ==
    phase = "run" =>
        \A t \in TUs : (Defines(t) /\ ~Synth(t)) =>
            objects[symtab[t]] = [i \in 0..255 |-> Zero]

\* C3 witness: a placeholder table read through to entry 255
C3_Witness == \E t \in TUs : ~Synth(t) /\ ReadThrough(t) /\ lastRead.val = Zero

\* C4: however often a translation unit includes the header, it holds at
\* most one definition of b4 and no redefinition error arises.
C4_AtMostOneDefinition ==
    \A t \in TUs : Len(decls[t]) <= 1 /\ err[t] # "redefinition"

\* C4 witness: a unit that has included the header twice or more
C4_Witness == \E t \in TUs : includes[t] >= 2 /\ Len(decls[t]) = 1 /\ err[t] = "none"

\* C5: in literal-value mode the least literal is -0.3029, the greatest is
\* 0.0985 and none is zero, as the summary comments record.
C5_SummaryMatches ==
    \A t \in TUs : \A k \in 1..Len(decls[t]) :
        decls[t][k].line = LiteralLine =>
            /\ LiteralMin = 0 - 3029 /\ LiteralMin = Round4(MinComment)
            /\ LiteralMax = 985 /\ LiteralMax = Round4(MaxComment)
            /\ LiteralZeros = 0 /\ LiteralZeros = ZerosComment
            /\ decls[t][k].ninit = ShapeComment

\* C5 witness: a unit that has compiled the literal-valued definition
C5_Witness == \E t \in TUs : Synth(t) /\ Defines(t) /\ decls[t][1].line = LiteralLine /\ tu > t

\* C6: once a unit has included the header, exactly one of the two
\* definitions has been selected: the literal one in synthesis mode, the
\* placeholder otherwise.
C6_ExactlyOneSelected ==
    \A t \in TUs : includes[t] >= 1 =>
        /\ Len(decls[t]) = 1
        /\ decls[t][1].line = IF Synth(t) THEN LiteralLine ELSE PlaceholderLine

\* C6 witness: both settings of the flag have completed a first inclusion
C6_Witness ==
    \E t1, t2 \in TUs : includes[t1] = 1 /\ includes[t2] = 1 /\ Synth(t1) /\ ~Synth(t2)

C9_OneSharedTable ==
    phase = "run" =>
        \A t1, t2 \in TUs : (Defines(t1) /\ Defines(t2)) => symtab[t1] = symtab[t2]

\* C9 amended: the build links, and every unit that includes the header has
\* a table of its own; the tables of two units are distinct objects, equal
\* in content when the units share the build mode; a unit that does not
\* include the header reaches no table.
C9_TablePerUnit ==
    /\ phase # "failed"
    /\ phase = "run" =>
          \A t1, t2 \in TUs :
              /\ ~Defines(t1) => symtab[t1] = NoObject
              /\ (Defines(t1) /\ Defines(t2) /\ t1 # t2) =>
                    /\ symtab[t1] # symtab[t2]
                    /\ Synth(t1) = Synth(t2) => objects[symtab[t1]] = objects[symtab[t2]]

\* C9 witness: two units in the same build mode, each with its table
C9_Witness ==
    /\ phase = "run"
    /\ \E t1, t2 \in TUs :
          /\ t1 # t2 /\ Defines(t1) /\ Defines(t2) /\ Synth(t1) = Synth(t2)
          /\ symtab[t1] = t1 /\ symtab[t2] = t2

====
